---- MODULE Spec2Model ----
(***************************************************************************)
(* A model of Csi::Kcdc::KcdcData (src/kcdc/KcdcData.h): the event         *)
(* statistics loop ProcessEventStats with its two sky histograms and its   *)
(* time-scrambling batch buffer, the record filter of AddFields, and the   *)
(* angle helpers.                                                          *)
(*                                                                         *)
(* Angles are whole numbers of quarter degrees (Degrees(1) = 4), so that   *)
(* the 0.5 degree bin of the source is 2 units wide and two different      *)
(* positions can share a bin.  Julian dates are whole sidereal hours from  *)
(* a reference epoch.  The batch size (100000 in the source), the number   *)
(* of synthetic events per real event (20) and RAND_MAX (2^31-1) are       *)
(* scaled down; every other number is the source's.                        *)
(***************************************************************************)
EXTENDS Integers, Sequences, FiniteSets, Bags, TLC

Degrees(d) == 4 * d

(* ----------------------------- bounds ---------------------------------- *)
\* records of the input stream
MaxLines == 4
\* static const uint64_t eventSetSize = 100000, scaled
eventSetSize == 2
\* the literal 20 of "for (uint64_t i=0; i<20; ++i)" and "nfake(i,j)/20", scaled
K == 2
\* stdlib's RAND_MAX (2^31-1), scaled: random() returns 0..RAND_MAX inclusive
RAND_MAX == 4
\* the energy window [emin, emax] passed to ProcessEventStats; a window of
\* one value makes that value both limits, and both are inclusive
emin == 15
emax == 15
\* the angles handed to the angle helpers: -MaxAlpha .. MaxAlpha quarter degrees
MaxAlpha == 3000

(* ------------------------- program constants --------------------------- *)
binSize == 2
m_rows == 360
m_cols == 720
KASCADE_LATITUDE == 196
KASCADE_LONGITUDE == 34
\* the 15.0 of "if (e>=15.0 && dist<=maxDistance)"
EnergyThreshold == 15

(* ------------------------------ helpers -------------------------------- *)
Abs(x) == IF x < 0 THEN 0 - x ELSE x

\* C++ conversion of a quotient to an integer type: truncation toward zero
TruncDiv(a, b) == IF a >= 0 THEN a \div b ELSE 0 - ((0 - a) \div b)

\* double EnsureCorrectRange(double alpha)
EnsureCorrectRange(alpha) ==
    LET t0 == TruncDiv(alpha, Degrees(360))
        t1 == IF alpha < 0 THEN t0 - 1 ELSE t0
        tmp == t1 * Degrees(360)
    IN  alpha - tmp

\* the comparison made strict: 180 stays 180
Convert360To180Strict(a) ==
    IF a > Degrees(180) THEN a - Degrees(360) ELSE a

\* double Convert360To180(double alpha)
Convert360To180(alpha) ==
    IF alpha >= Degrees(180) THEN alpha - Degrees(360) ELSE alpha

(***************************************************************************)
(* libnova's ln_get_equ_from_hrz(hrz, observer, JD, equ).  The library is  *)
(* not part of the repository; the model takes the transform on the local  *)
(* meridian (libnova azimuth 0 = due south, 180 = due north), where        *)
(*   dec = asin(sin(lat) sin(alt) - cos(lat) cos(alt) cos(az))             *)
(*   H   = atan2(sin(az), cos(az) sin(lat) + tan(alt) cos(lat))            *)
(*   ra  = range_degrees(sidereal(JD) + lng - H)                           *)
(* are whole quarter degrees: looking north, dec = 90 - |alt - lat| (the   *)
(* celestial pole, dec = +90, is at alt = lat); looking south,             *)
(* dec = alt + lat - 90.  The declination does not depend on JD; the right *)
(* ascension advances 15 degrees per sidereal hour.                         *)
(***************************************************************************)
Gst(JD) == (Degrees(15) * JD) % Degrees(360)

HrzDec(alt, az) ==
    CASE az % Degrees(360) = Degrees(180) -> Degrees(90) - Abs(alt - KASCADE_LATITUDE)
      [] az % Degrees(360) = 0            -> alt + KASCADE_LATITUDE - Degrees(90)

HrzHourAngle(alt, az) ==
    CASE az % Degrees(360) = Degrees(180) ->
             IF alt >= KASCADE_LATITUDE THEN 0 ELSE Degrees(180)
      [] az % Degrees(360) = 0            -> 0

ln_get_equ_from_hrz(alt, az, JD) ==
    [ra  |-> (Gst(JD) + KASCADE_LONGITUDE - HrzHourAngle(alt, az)) % Degrees(360),
     dec |-> HrzDec(alt, az)]

(* --------------------------- input records ----------------------------- *)
Energies == {emin - 1, emin, emax, emax + 1}
Zeniths  == {Degrees(0), Degrees(41)}
Azimuths == {Degrees(0)}
JDates   == {0, 1}

\* the fields of an input line that ProcessEventStats uses: e, ze, az and
\* jdays = GetJulianDate(ymd, hms, mmn)
Records == [e : Energies, ze : Zeniths, az : Azimuths, jdays : JDates]

\* struct EventInfo and its default constructor
EventInfo0 == [e |-> 0, zenith |-> 0, azimuth |-> 0, jdate |-> 0, dec |-> 0, ra |-> 0]

VARIABLES
    pc,          \* "read": at the top of the record loop; "scramble": inside the
                 \* batch loops; "done": after the export; "crashed": killed by
                 \* a write outside an array
    lines,       \* uint64_t lines: records read
    e,           \* double e: the energy of the record of the current loop iteration
    events,      \* std::valarray<EventInfo> events(eventSetSize)
    eventCount,  \* uint32_t eventCount
    nreal,       \* Array2D nreal: the bag of flat indices m_data was incremented at
    nfake,       \* Array2D nfake, likewise
    n,           \* outer loop counter of the batch processing
    i,           \* inner loop counter of the batch processing
    idx,         \* uint64_t idx: the event index sampled last, inside the batch loops
    out,         \* what was written to std::cout
    accepted,    \* history: records that passed the energy filter
    nrealFile,   \* std::ofstream nrealFile: the number written at each position
                 \* of the file, for the bins that were ever incremented (every
                 \* other number of the file is 0)
    nfakeFile,   \* std::ofstream nfakeFile, likewise
    fresh,       \* history: the slots of events assigned since the batch loops
                 \* were last left
    \* AddFields
    maxDistance, \* double maxDistance
    afInput,     \* history: the records read from m_in
    m_out,       \* std::ofstream m_out: the records written
    \* the angle helpers, applied to one input
    alpha,       \* double alpha
    angleOp,     \* the helper applied to alpha, "none" before
    angleOut,    \* its result
    \* GetJulianDate, applied to two epochs
    epoch1,      \* uint64_t ymd, hms of the first epoch
    epoch2,      \* uint64_t ymd, hms of the second epoch
    jdate1,      \* GetJulianDate(epoch1.ymd, epoch1.hms, 0)
    jdate2,      \* GetJulianDate(epoch2.ymd, epoch2.hms, 0)
    jdDone,      \* whether the two calls have returned
    \* Csi::Vector, as the unit test uses it
    v,           \* Csi::Vector v
    v2,          \* Csi::Vector v2
    scale,       \* the double that a vector is multiplied by
    v3,          \* Csi::Vector v3: the result of +, - and -=
    v4,          \* Csi::Vector v4: the result of the scaling
    dot,         \* double dot
    vecOp,       \* the operators applied so far, "none" before
    vBefore,     \* history: v as it was constructed
    v2Before     \* history: v2 as it was constructed

fileVars == <<nrealFile, nfakeFile>>
pesVars == <<pc, lines, e, events, eventCount, nreal, nfake, n, i, idx, out, accepted,
             fileVars, fresh>>
afVars == <<maxDistance, afInput, m_out>>
angleVars == <<alpha, angleOp, angleOut>>
jdVars == <<epoch1, epoch2, jdate1, jdate2, jdDone>>
vecVars == <<v, v2, scale, v3, v4, dot, vecOp, vBefore, v2Before>>
vars == <<pesVars, afVars, angleVars, jdVars, vecVars>>

(* ------------------------- ProcessEventStats --------------------------- *)
\* the filter without its upper limit
AcceptsEnergyNoMax(en) == en >= emin

\* if (e>=emin && e<=emax)
AcceptsEnergy(en) == en >= emin /\ en <= emax

\* a batch that is processed one event early
BatchCompleteEarly(c) == c >= eventSetSize - 1

\* if (eventCount == eventSetSize)
BatchComplete(c) == c = eventSetSize

\* an inner loop that makes one draw too few
InnerLoopStopsEarly(j) == j < K - 1

\* for (uint64_t i=0; i<20; ++i)
InnerLoopContinues(j) == j < K

\* for (uint32_t n=0; n<eventSetSize; ++n)
OuterLoopContinues(m) == m < eventSetSize

\* uint64_t idx((double)eventSetSize*((double)random()/(double)RAND_MAX))
SampleIdx(r) == (eventSetSize * r) \div RAND_MAX

\* Array2D::operator()(i, j): the position in m_data
FlatIndex(row, col) == row * m_cols + col

\* the valarray has m_rows*m_cols elements
InArray(flat) == flat < m_rows * m_cols

\* uint32_t decIdx(ei.dec/binSize)
BinIdx(x) == x \div binSize

\* a batch that leaves the counter where it stands
CountNotReset(c) == c

\* line 346: eventCount = 0, at the end of each pass of the outer loop
CountAfterEvent(c) == 0

\* lines 274-299: the EventInfo built from an accepted record
MakeEventInfo(r) ==
    LET alt == Degrees(90) - r.ze
        az  == EnsureCorrectRange(r.az + Degrees(180))
        equ == ln_get_equ_from_hrz(alt, az, r.jdays)
    IN  [e |-> r.e, zenith |-> alt, azimuth |-> az, jdate |-> r.jdays,
         dec |-> equ.dec + Degrees(90),
         ra  |-> Convert360To180(equ.ra) + Degrees(180)]

\* lines 303-308 and 336-343: the messages about a position
PositionMessages(decName, raName, dec, ra) ==
    (IF dec < 0 \/ dec > Degrees(180) THEN {<<decName, dec>>} ELSE {})
    \cup (IF ra < 0 \/ ra > Degrees(360) THEN {<<raName, ra>>} ELSE {})
    \cup (IF BinIdx(dec) > 359 \/ BinIdx(ra) > 719
          THEN {<<"Illegal index ", BinIdx(dec), BinIdx(ra)>>} ELSE {})

InitProcessEventStats ==
    /\ pc = "read"
    /\ lines = 0
    /\ e = 0
    /\ events = [k \in 0 .. eventSetSize - 1 |-> EventInfo0]
    /\ eventCount = 0
    /\ nreal = EmptyBag
    /\ nfake = EmptyBag
    /\ n = 0
    /\ i = 0
    /\ idx = 0
    /\ out = {}
    /\ accepted = 0
    /\ nrealFile = <<>>
    /\ nfakeFile = <<>>
    /\ fresh = {}

\* AddFields has not been called
IdleAddFields ==
    /\ maxDistance = 0
    /\ afInput = <<>>
    /\ m_out = <<>>

\* no angle helper is under test
IdleAngle ==
    /\ alpha = 0
    /\ angleOp = "none"
    /\ angleOut = 0

\* a Julian date: day + cm/144000 + ns/86400e9 - 1524.5 days, where cm
\* counts hundredths of a minute and ns nanoseconds
NoJulianDate == [day |-> 0, cm |-> 0, ns |-> 0]

\* GetJulianDate is not under test
IdleJulian ==
    /\ epoch1 = [ymd |-> 0, hms |-> 0]
    /\ epoch2 = [ymd |-> 0, hms |-> 0]
    /\ jdate1 = NoJulianDate
    /\ jdate2 = NoJulianDate
    /\ jdDone = FALSE

\* Vector(): the zero vector
ZeroVector == [x |-> 0, y |-> 0, z |-> 0]

\* no Vector operator is under test
IdleVector ==
    /\ v = ZeroVector
    /\ v2 = ZeroVector
    /\ scale = 0
    /\ v3 = ZeroVector
    /\ v4 = ZeroVector
    /\ dot = 0
    /\ vecOp = "none"
    /\ vBefore = ZeroVector
    /\ v2Before = ZeroVector

Init == InitProcessEventStats /\ IdleAddFields /\ IdleAngle /\ IdleJulian /\ IdleVector

\* one iteration of the record loop whose record fails the energy filter
ReadRejected(r) ==
    /\ pc = "read"
    /\ lines < MaxLines
    /\ ~AcceptsEnergy(r.e)
    /\ lines' = lines + 1
    /\ e' = r.e
    /\ UNCHANGED <<pc, events, eventCount, nreal, nfake, n, i, idx, out, accepted, fresh>>
    /\ UNCHANGED <<fileVars, afVars, angleVars, jdVars, vecVars>>

\* one iteration of the record loop whose record passes the filter, up to
\* the entry of the batch loops (lines 288-318)
ReadAccepted(r) ==
    /\ pc = "read"
    /\ lines < MaxLines
    /\ AcceptsEnergy(r.e)
    /\ LET ei     == MakeEventInfo(r)
           decIdx == BinIdx(ei.dec)
           raIdx  == BinIdx(ei.ra)
           flat   == FlatIndex(decIdx, raIdx)
       IN  /\ lines' = lines + 1
           /\ e' = r.e
           /\ accepted' = accepted + 1
           /\ out' = out \cup PositionMessages("Illegal dec= ", "Illegal ra= ", ei.dec, ei.ra)
           /\ \/ /\ nreal' = nreal (+) SetToBag({flat})
                 /\ events' = [events EXCEPT ![eventCount] = ei]
                 /\ fresh' = fresh \cup ({eventCount} \cap DOMAIN events)
                 /\ eventCount' = eventCount + 1
                 /\ pc' = IF BatchComplete(eventCount + 1) THEN "scramble" ELSE "read"
                 /\ n' = 0
                 /\ i' = 0
                 /\ UNCHANGED <<nfake, idx>>
              \/ \* ++nreal(decIdx, raIdx) outside the valarray may also fault
                 /\ ~InArray(flat)
                 /\ pc' = "crashed"
                 /\ UNCHANGED <<events, eventCount, nreal, nfake, n, i, idx, fresh>>
           /\ UNCHANGED <<fileVars, afVars, angleVars, jdVars, vecVars>>

\* one iteration of the inner batch loop (lines 321-345), with the loop
\* bookkeeping that follows it (line 346 and the two loop conditions).
\* r is what random() returns.  With idx = eventSetSize, events[idx] is read
\* past the buffer and the epoch is whatever lies there (garbage).  The
\* local copy ei is events[n] with its jdate overwritten before each use.
\* idx is a local of the loop body and is gone when the loops are left.
ScrambleStep(r, garbage) ==
    /\ pc = "scramble"
    /\ LET sampled == SampleIdx(r)
           jdate   == IF sampled < eventSetSize THEN events[sampled].jdate ELSE garbage
           ei      == events[n]
           equ     == ln_get_equ_from_hrz(ei.zenith, ei.azimuth, jdate)
           fakeRa  == Convert360To180(equ.ra) + Degrees(180)
           fakeDec == equ.dec + Degrees(90)
           flat    == FlatIndex(BinIdx(fakeDec), BinIdx(fakeRa))
           lastOfEvent == ~InnerLoopContinues(i + 1)
           lastOfBatch == lastOfEvent /\ ~OuterLoopContinues(n + 1)
       IN  /\ idx' = IF lastOfBatch THEN 0 ELSE sampled
           /\ out' = out
                \cup (IF sampled >= eventSetSize
                      THEN {<<"illegal event idx :", sampled>>} ELSE {})
                \cup PositionMessages("Illegal fakeDec= ", "Illegal fakeRa= ", fakeDec, fakeRa)
           /\ \/ /\ nfake' = nfake (+) SetToBag({flat})
                 /\ i' = IF lastOfEvent THEN 0 ELSE i + 1
                 /\ n' = IF lastOfBatch THEN 0 ELSE IF lastOfEvent THEN n + 1 ELSE n
                 /\ eventCount' = IF lastOfEvent THEN CountAfterEvent(eventCount)
                                  ELSE eventCount
                 /\ fresh' = IF lastOfBatch THEN {} ELSE fresh
                 /\ pc' = IF lastOfBatch THEN "read" ELSE "scramble"
              \/ \* ++nfake(fakeDecIdx, fakeRaIdx) outside the valarray may also fault
                 /\ ~InArray(flat)
                 /\ pc' = "crashed"
                 /\ UNCHANGED <<nfake, i, n, eventCount, fresh>>
           /\ UNCHANGED <<lines, e, events, nreal, accepted>>
           /\ UNCHANGED <<fileVars, afVars, angleVars, jdVars, vecVars>>

\* the in-array bins that nreal or nfake was ever incremented at
TouchedBins == {f \in BagToSet(nreal) \cup BagToSet(nfake) : InArray(f)}

\* lines 360-369: for (i=359; i>=0; --i) for (j=0; j<720; ++j): the position
\* in the file, counted from 0, of the number written for the bin at a flat index
FilePos(flat) == (m_rows - 1 - (flat \div m_cols)) * m_cols + (flat % m_cols)

\* the flat index of the bin written at a position of the file
BinAtFilePos(p) == (m_rows - 1 - (p \div m_cols)) * m_cols + (p % m_cols)

\* nrealFile << nreal(i,j)
ExportedReal(flat) == CopiesIn(flat, nreal)

\* a division that rounds to nearest instead of truncating
ExportedFakeRounded(flat) == (CopiesIn(flat, nfake) + (K \div 2)) \div K

\* nfakeFile << (nfake(i,j)/20): a division of uint64_t
ExportedFake(flat) == CopiesIn(flat, nfake) \div K

\* getline hits the end of the file: the loop ends and the matrices are written
EndOfStream ==
    /\ pc = "read"
    /\ pc' = "done"
    /\ out' = out \cup {<<"Complete!">>}
    /\ nrealFile' = [p \in {FilePos(f) : f \in TouchedBins} |-> ExportedReal(BinAtFilePos(p))]
    /\ nfakeFile' = [p \in {FilePos(f) : f \in TouchedBins} |-> ExportedFake(BinAtFilePos(p))]
    /\ UNCHANGED <<lines, e, events, eventCount, nreal, nfake, n, i, idx, accepted, fresh>>
    /\ UNCHANGED <<afVars, angleVars, jdVars, vecVars>>

Next ==
    \/ \E r \in Records : ReadRejected(r)
    \/ \E r \in Records : ReadAccepted(r)
    \/ \E r \in 0 .. RAND_MAX, garbage \in JDates : ScrambleStep(r, garbage)
    \/ EndOfStream

Spec == Init /\ [][Next]_vars

(* ------------------------------ AddFields ------------------------------ *)
AFEnergies == {EnergyThreshold - 1, EnergyThreshold, EnergyThreshold + 1}
AFJDates == {0, 20}
AFRecords == [e : AFEnergies, ze : Zeniths, az : Azimuths, jdays : AFJDates]
MaxDistances == {0, Degrees(10)}

\* lines 137-147: the position AddFields derives from a record
AFPosition(r) ==
    LET alt == Degrees(90) - r.ze
        az  == EnsureCorrectRange(r.az + Degrees(180))
        equ == ln_get_equ_from_hrz(alt, az, r.jdays)
    IN  [ra |-> Convert360To180(equ.ra), dec |-> equ.dec]

\* dist = sqrt(pow((dec-40.95),2.0) + pow((ra+52.0),2.0)/pow(cos(40.95*DEG2RAD),2.0))
\* and dist <= maxDistance.  Neither side is negative, so the squares are
\* compared, in twentieths of a degree (40.95 = 819, 52 = 1040), with
\* cos^2(40.95 deg) = 0.5705 taken as 4/7.
DistLeq(ra, dec, maxD) ==
    LET dd == 5 * dec - 819
        dr == 5 * ra + 1040
        md == 5 * maxD
    IN  4 * dd * dd + 7 * dr * dr <= 4 * md * md

\* if (e>=15.0 && dist<=maxDistance)
AFWrites(r, maxD) ==
    /\ r.e >= EnergyThreshold
    /\ DistLeq(AFPosition(r).ra, AFPosition(r).dec, maxD)

\* the line written for a record: its fields, then RA and DEC (DIST follows from them)
AFOutputLine(r) ==
    [e |-> r.e, ze |-> r.ze, az |-> r.az, jdays |-> r.jdays,
     ra |-> AFPosition(r).ra, dec |-> AFPosition(r).dec]

InitAddFields ==
    /\ maxDistance \in MaxDistances
    /\ afInput = <<>>
    /\ m_out = <<>>

\* one iteration of the record loop of AddFields
AddFieldsRecord(r) ==
    /\ Len(afInput) < MaxLines
    /\ afInput' = Append(afInput, r)
    /\ m_out' = IF AFWrites(r, maxDistance) THEN Append(m_out, AFOutputLine(r)) ELSE m_out
    /\ UNCHANGED <<maxDistance, pesVars, angleVars, jdVars, vecVars>>

NextAddFields == \E r \in AFRecords : AddFieldsRecord(r)

InitAF == InitProcessEventStats /\ InitAddFields /\ IdleAngle /\ IdleJulian /\ IdleVector

SpecAddFields == InitAF /\ [][NextAddFields]_vars

(* --------------------------- the angle helpers ------------------------- *)
Alphas == (0 - MaxAlpha) .. MaxAlpha

InitAngle ==
    /\ alpha \in Alphas
    /\ angleOp = "none"
    /\ angleOut = 0

ApplyEnsureCorrectRange ==
    /\ angleOp = "none"
    /\ angleOp' = "EnsureCorrectRange"
    /\ angleOut' = EnsureCorrectRange(alpha)
    /\ UNCHANGED <<alpha, pesVars, afVars, jdVars, vecVars>>

ApplyConvert360To180 ==
    /\ angleOp = "none"
    /\ angleOp' = "Convert360To180"
    /\ angleOut' = Convert360To180(alpha)
    /\ UNCHANGED <<alpha, pesVars, afVars, jdVars, vecVars>>

NextAngle == ApplyEnsureCorrectRange \/ ApplyConvert360To180

InitAngleSpec == InitProcessEventStats /\ IdleAddFields /\ InitAngle /\ IdleJulian /\ IdleVector

SpecAngle == InitAngleSpec /\ [][NextAngle]_vars

(* ----------------------------- GetJulianDate --------------------------- *)
\* the function with the month shifted but the year not decremented
GetJulianDateNoBorrow(ymd, hms, mmn) ==
    LET years0  == ymd \div 10000
        months0 == (ymd - years0 * 10000) \div 100
        dom     == ymd - years0 * 10000 - months0 * 100
        months  == IF months0 <= 2 THEN months0 + 12 ELSE months0
        hours   == hms \div 10000
        b0      == years0 \div 100
        b       == 2 - b0 + b0 \div 4
    IN  [day |-> (1461 * (years0 + 4716)) \div 4 + (306 * (months + 1)) \div 10 + b + dom,
         cm  |-> hours * 6000 + (hms - hours * 10000),
         ns  |-> mmn]

\* double GetJulianDate(uint64_t ymd, uint64_t hms, uint64_t mmn), in exact
\* arithmetic.  years = floor(ymd / 10000) and hours = hms / 10000 are
\* integer divisions; months is floored; minutes = (hms - hours*10000.0)/100.0
\* is NOT floored, so minutes is MM.SS (MM + SS/100) and
\* seconds = hms - hours*10000.0 - minutes*100.0 + mmn*1e-9 is mmn*1e-9.
\* The day fraction (hours + (minutes + seconds/60)/60)/24 is therefore
\* (hours*6000 + MMSS) hundredths of a minute, plus mmn nanoseconds.
\* 365.25*y is (1461*y)/4 and 306*(m+1)/10. is taken as written.  A double
\* near 2.45e6 resolves 4.7e-10 day, far below the hundredth of a minute.
GetJulianDate(ymd, hms, mmn) ==
    LET years0  == ymd \div 10000
        months0 == (ymd - years0 * 10000) \div 100
        dom     == ymd - years0 * 10000 - months0 * 100
        months  == IF months0 <= 2 THEN months0 + 12 ELSE months0
        years   == IF months0 <= 2 THEN years0 - 1 ELSE years0
        hours   == hms \div 10000
        b0      == years \div 100
        b       == 2 - b0 + b0 \div 4
    IN  [day |-> (1461 * (years + 4716)) \div 4 + (306 * (months + 1)) \div 10 + b + dom,
         cm  |-> hours * 6000 + (hms - hours * 10000),
         ns  |-> mmn]

\* valid calendar dates on both sides of month, year, leap-day and century ends
JulianYmds == {18991231, 19000101, 19000228, 19000301, 19980702, 19991231,
               20000101, 20000131, 20000201, 20000228, 20000229, 20000301,
               20001231, 20010101}
\* valid times of day on both sides of second, minute and hour ends
JulianHmss == {0, 59, 100, 5959, 10000, 145647, 145648, 235959}
JulianEpochs == [ymd : JulianYmds, hms : JulianHmss]

InitJulian ==
    /\ epoch1 \in JulianEpochs
    /\ epoch2 \in JulianEpochs
    /\ jdate1 = NoJulianDate
    /\ jdate2 = NoJulianDate
    /\ jdDone = FALSE

\* jdays = GetJulianDate(ymd, hms, mmn) with mmn = 0 ("no mmn in data")
ComputeJulianDates ==
    /\ ~jdDone
    /\ jdate1' = GetJulianDate(epoch1.ymd, epoch1.hms, 0)
    /\ jdate2' = GetJulianDate(epoch2.ymd, epoch2.hms, 0)
    /\ jdDone' = TRUE
    /\ UNCHANGED <<epoch1, epoch2, pesVars, afVars, angleVars, vecVars>>

NextJulian == ComputeJulianDates

InitJulianSpec == InitProcessEventStats /\ IdleAddFields /\ IdleAngle /\ InitJulian /\ IdleVector

SpecJulian == InitJulianSpec /\ [][NextJulian]_vars

(* ------------------------------ Csi::Vector ---------------------------- *)
\* Each operator gives the object it was called on as the call leaves it
\* (this) and what it returns (ret).  The argument r is a const reference.

\* bound on the components of the vectors tried
VecMax == 1

\* an operator-= that adds the z component
OperatorMinusAssignWrongZ(a, r) ==
    LET d == [x |-> a.x - r.x, y |-> a.y - r.y, z |-> a.z + r.z]
    IN  [this |-> d, ret |-> d]

\* Vector& operator-=(const Vector& r)
OperatorMinusAssign(a, r) ==
    LET d == [x |-> a.x - r.x, y |-> a.y - r.y, z |-> a.z - r.z]
    IN  [this |-> d, ret |-> d]

\* const Vector operator-(const Vector& r) const
OperatorMinus(a, r) ==
    [this |-> a, ret |-> [x |-> a.x - r.x, y |-> a.y - r.y, z |-> a.z - r.z]]

\* const Vector operator+(const Vector& r) const
OperatorPlus(a, r) ==
    [this |-> a, ret |-> [x |-> a.x + r.x, y |-> a.y + r.y, z |-> a.z + r.z]]

\* const double operator*(const Vector& r) const
OperatorDot(a, r) ==
    [this |-> a, ret |-> a.x * r.x + a.y * r.y + a.z * r.z]

\* const Vector operator*(const double& s) const
OperatorScale(a, s) ==
    [this |-> a, ret |-> [x |-> s * a.x, y |-> s * a.y, z |-> s * a.z]]

\* Csi::Vector v(1.0, 2.0, 3.0) of the unit test
TestVector == [x |-> 1, y |-> 2, z |-> 3]

\* the vectors tried: every vector with small components, and the test's
Vectors ==
    [x : -VecMax .. VecMax, y : -VecMax .. VecMax, z : -VecMax .. VecMax]
        \cup {TestVector}

\* the scale factors tried; the unit test uses 4.0
Scales == {-2, 0, 4}

InitVector ==
    /\ v \in Vectors
    /\ v2 \in Vectors
    /\ scale \in Scales
    /\ v3 = ZeroVector
    /\ v4 = ZeroVector
    /\ dot = 0
    /\ vecOp = "none"
    /\ vBefore = v
    /\ v2Before = v2

\* v3 = v + v2
VectorAdd ==
    /\ vecOp = "none"
    /\ v' = OperatorPlus(v, v2).this
    /\ v3' = OperatorPlus(v, v2).ret
    /\ vecOp' = "add"
    /\ UNCHANGED <<v2, scale, v4, dot, vBefore, v2Before>>
    /\ UNCHANGED <<pesVars, afVars, angleVars, jdVars>>

\* v3 -= v, after v3 = v + v2
VectorSubtractAssign ==
    /\ vecOp = "add"
    /\ v3' = OperatorMinusAssign(v3, v).this
    /\ vecOp' = "add, subtract-assign"
    /\ UNCHANGED <<v, v2, scale, v4, dot, vBefore, v2Before>>
    /\ UNCHANGED <<pesVars, afVars, angleVars, jdVars>>

\* Csi::Vector v3(v - v2)
VectorSubtract ==
    /\ vecOp = "none"
    /\ v' = OperatorMinus(v, v2).this
    /\ v3' = OperatorMinus(v, v2).ret
    /\ vecOp' = "subtract"
    /\ UNCHANGED <<v2, scale, v4, dot, vBefore, v2Before>>
    /\ UNCHANGED <<pesVars, afVars, angleVars, jdVars>>

\* double dot = v*v2
VectorDot ==
    /\ vecOp = "none"
    /\ v' = OperatorDot(v, v2).this
    /\ dot' = OperatorDot(v, v2).ret
    /\ vecOp' = "dot"
    /\ UNCHANGED <<v2, scale, v3, v4, vBefore, v2Before>>
    /\ UNCHANGED <<pesVars, afVars, angleVars, jdVars>>

\* Csi::Vector v4 = v*scale
VectorScale ==
    /\ vecOp = "none"
    /\ v' = OperatorScale(v, scale).this
    /\ v4' = OperatorScale(v, scale).ret
    /\ vecOp' = "scale"
    /\ UNCHANGED <<v2, scale, v3, dot, vBefore, v2Before>>
    /\ UNCHANGED <<pesVars, afVars, angleVars, jdVars>>

NextVector ==
    \/ VectorAdd
    \/ VectorSubtractAssign
    \/ VectorSubtract
    \/ VectorDot
    \/ VectorScale

InitVectorSpec == InitProcessEventStats /\ IdleAddFields /\ IdleAngle /\ IdleJulian /\ InitVector

SpecVector == InitVectorSpec /\ [][NextVector]_vars

(* ------------------- the histograms as they are read ------------------- *)
\* the elements of the valarray: the increments that landed inside it
InGrid(h) == [f \in {g \in BagToSet(h) : InArray(g)} |-> CopiesIn(f, h)]

\* the sum over all bins of a histogram
GridSum(h) == BagCardinality(InGrid(h))


(* ------------------------ ProcessEventStats: claims -------------------- *)

\* C1 (as claimed): no increment of nreal or nfake lands outside the
\* 360 x 720 grid: an event whose bin index is out of range is reported and
\* not inserted, so every write is at a flat index below 360*720.
C1_WritesStayInGrid ==
    /\ pc # "crashed"
    /\ \A f \in BagToSet(nreal) \cup BagToSet(nfake) : InArray(f)

\* C2 (as claimed): when the stream has ended, nfake has received K
\* increments for every accepted event of the whole stream.
C2_KPerAcceptedEvent ==
    pc = "done" => BagCardinality(nfake) = K * accepted

\* C2 (amended): when the stream has ended, K increments of nfake have been
\* made for every accepted event except those still in the batch buffer.
C2_KPerBatchedEvent ==
    pc = "done" => BagCardinality(nfake) = K * (accepted - eventCount)

\* C2 witness: a stream ended after one full batch and a partial one
C2_BatchThenPartialEnded ==
    /\ pc = "done"
    /\ BagCardinality(nfake) = K * eventSetSize
    /\ accepted > eventSetSize

C4_RealSumIsAccepted ==
    pc # "crashed" => GridSum(nreal) = accepted

\* C5 (as claimed): the sampled index is inside the buffer, 0 <= idx <
\* eventSetSize, whatever random() returns.
C5_SampledIdxInBuffer ==
    idx >= 0 /\ idx < eventSetSize

\* C6 (as claimed): after a batch of eventSetSize events of one zenith,
\* azimuth and epoch, nfake has a single non-zero bin, the bin nreal was
\* incremented at, with raw count eventSetSize * K and exported value
\* eventSetSize.
C6_IdenticalBatchOneBin ==
    ( /\ pc = "read"
      /\ accepted = eventSetSize
      /\ eventCount = 0
      /\ \A k \in DOMAIN events :
            /\ events[k].zenith = events[0].zenith
            /\ events[k].azimuth = events[0].azimuth
            /\ events[k].jdate = events[0].jdate )
    => LET bin == FlatIndex(BinIdx(events[0].dec), BinIdx(events[0].ra))
       IN  /\ BagToSet(InGrid(nfake)) = {bin}
           /\ CopiesIn(bin, InGrid(nreal)) = eventSetSize
           /\ CopiesIn(bin, nfake) = eventSetSize * K
           /\ ExportedFake(bin) = eventSetSize

\* C7 (as claimed): when the stream ends with a partial batch in the buffer,
\* the number of dropped events is reported.
C7_DroppedCountReported ==
    (pc = "done" /\ eventCount > 0) => <<"Dropped events: ", eventCount>> \in out

\* C8: a record whose energy is below emin or above emax leaves nreal,
\* nfake, the batch buffer and eventCount as they were and does not start
\* the batch processing.
C8_RejectedRecordChangesNothing ==
    [][ (lines' = lines + 1 /\ (e' < emin \/ e' > emax))
        => (UNCHANGED <<nreal, nfake, events, eventCount>> /\ pc' = "read") ]_vars

\* C8 witness: a record above emax has been read while events are buffered
C8_RejectedWhileBuffering ==
    /\ pc = "read"
    /\ e > emax
    /\ lines > accepted
    /\ eventCount > 0

(* --------------------------- AddFields: claims ------------------------- *)
C9ShouldWrite(r) ==
    /\ r.e >= EnergyThreshold
    /\ (maxDistance = 0 \/ DistLeq(AFPosition(r).ra, AFPosition(r).dec, maxDistance))

\* C9 (as claimed): with maxDistance = 0 every record with e >= 15 is
\* written whatever its DIST; with maxDistance > 0 exactly the records with
\* e >= 15 and DIST <= maxDistance are written.
C9_ZeroMeansNoMaximum ==
    LET sel == SelectSeq(afInput, C9ShouldWrite)
    IN  m_out = [k \in 1 .. Len(sel) |-> AFOutputLine(sel[k])]

(* ------------------------- angle helpers: claims ----------------------- *)
\* C10 (as claimed): EnsureCorrectRange returns r with 0 <= r < 360 that
\* differs from its input by a whole multiple of 360, for every input,
\* negative multiples of 360 included.
C10_RangeIsHalfOpen ==
    angleOp = "EnsureCorrectRange" =>
        /\ 0 <= angleOut
        /\ angleOut < Degrees(360)
        /\ (alpha - angleOut) % Degrees(360) = 0

\* C11 (as claimed): Convert360To180 maps every a in [0,360) to r with
\* -180 < r <= 180; a = 180 maps to 180.
C11_RangeOpenAtMinus180 ==
    (angleOp = "Convert360To180" /\ 0 <= alpha /\ alpha < Degrees(360)) =>
        (0 - Degrees(180) < angleOut /\ angleOut <= Degrees(180))

\* C11 (amended): Convert360To180 maps every a in [0,360) to r with
\* -180 <= r < 180 and r = a or r = a - 360; a = 180 maps to -180.
C11_RangeClosedAtMinus180 ==
    (angleOp = "Convert360To180" /\ 0 <= alpha /\ alpha < Degrees(360)) =>
        /\ 0 - Degrees(180) <= angleOut
        /\ angleOut < Degrees(180)
        /\ angleOut \in {alpha, alpha - Degrees(360)}
        /\ (alpha = Degrees(180) => angleOut = 0 - Degrees(180))

\* C11 witness: the helper has been applied to exactly 180 degrees
C11_Applied180 ==
    /\ angleOp = "Convert360To180"
    /\ alpha = Degrees(180)
    /\ angleOut = 0 - Degrees(180)

(* -------------------------- GetJulianDate: claims ---------------------- *)
\* calendar order of two epochs
Earlier(a, b) == a.ymd < b.ymd \/ (a.ymd = b.ymd /\ a.hms < b.hms)

\* a < b for two Julian dates without sub-second part whose cm differ by
\* less than two days
JDLess(a, b) ==
    LET dd == b.day - a.day
    IN  IF dd >= 2 THEN TRUE
        ELSE IF dd <= 0 - 2 THEN FALSE
        ELSE dd * 144000 > a.cm - b.cm

\* C12: for two valid epochs, the earlier in calendar order has the
\* strictly smaller Julian date.
C12_JulianDateMonotonic ==
    (jdDone /\ Earlier(epoch1, epoch2)) => JDLess(jdate1, jdate2)

\* C12 witness: the dates computed on the two sides of a leap day
C12_AcrossLeapDay ==
    /\ jdDone
    /\ epoch1 = [ymd |-> 20000229, hms |-> 235959]
    /\ epoch2 = [ymd |-> 20000301, hms |-> 0]
    /\ jdate2.day = jdate1.day + 1

\* the Julian day number of a Gregorian date (Fliegel and Van Flandern)
StdJDN(y, mo, d) ==
    LET a == TruncDiv(mo - 14, 12)
    IN  TruncDiv(1461 * (y + 4800 + a), 4) + TruncDiv(367 * (mo - 2 - 12 * a), 12)
        - TruncDiv(3 * TruncDiv(y + 4900 + a, 100), 4) + d - 32075

\* C13 (as claimed): the result is the Julian day of the date at 0h plus
\* (HH*3600 + MM*60 + SS)/86400 day, to better than one second.
C13_MatchesStandardToASecond ==
    jdDone =>
        LET y   == epoch1.ymd \div 10000
            mo  == (epoch1.ymd % 10000) \div 100
            d   == epoch1.ymd % 100
            sec == (epoch1.hms \div 10000) * 3600
                   + ((epoch1.hms % 10000) \div 100) * 60 + (epoch1.hms % 100)
        IN  /\ jdate1.day - 1524 = StdJDN(y, mo, d)
            /\ Abs(6 * jdate1.cm - 10 * sec) < 10

(* --------------------------- the export: claims ------------------------ *)
\* C14: in the exported files the number for declination bin i and right
\* ascension bin j stands at position (359 - i) * 720 + j (rows from 359
\* down to 0, columns from 0 up to 719); in nrealFile it is the raw count,
\* in nfakeFile it is x with K*x <= raw < K*x + K (the raw count divided by
\* K, truncated), so that a bin with fewer than K increments exports 0.
C14_ExportTruncates ==
    pc = "done" =>
        \A f \in BagToSet(nreal) \cup BagToSet(nfake) :
            (0 <= f /\ f < 360 * 720) =>
                LET row     == f \div 720
                    col     == f % 720
                    p       == (359 - row) * 720 + col
                    rawReal == CopiesIn(f, nreal)
                    rawFake == CopiesIn(f, nfake)
                IN  /\ p \in DOMAIN nrealFile
                    /\ p \in DOMAIN nfakeFile
                    /\ nrealFile[p] = rawReal
                    /\ K * nfakeFile[p] <= rawFake
                    /\ rawFake < K * nfakeFile[p] + K
                    /\ (rawFake < K => nfakeFile[p] = 0)

\* C14 witness: a file was written in which a bin with a raw count that is
\* no multiple of K stands next to one with a larger count
C14_ExportedARemainder ==
    /\ pc = "done"
    /\ \E f, g \in TouchedBins :
          /\ CopiesIn(f, nfake) % K # 0
          /\ CopiesIn(g, nfake) > CopiesIn(f, nfake)
          /\ nfakeFile[FilePos(f)] < nfakeFile[FilePos(g)]

(* ------------------------ the batch buffer: claims --------------------- *)
\* C15: the buffer never overflows and each batch is made of its own events.
\* Between records eventCount is below the capacity, it is the number of
\* events accepted since the last batch, and exactly the slots below it were
\* assigned since then (so the next write events[eventCount] is inside the
\* buffer); the batch loops run exactly when that number reached the
\* capacity, with every slot assigned since the last batch, so an index
\* inside the buffer never samples an epoch of an earlier batch.
C15_BufferReusedCleanly ==
    /\ pc \in {"read", "done"} =>
          /\ 0 <= eventCount /\ eventCount < eventSetSize
          /\ eventCount \in DOMAIN events
          /\ eventCount = accepted % eventSetSize
          /\ fresh = 0 .. eventCount - 1
    /\ pc = "scramble" =>
          /\ accepted > 0 /\ accepted % eventSetSize = 0
          /\ fresh = DOMAIN events
          /\ eventCount = IF n = 0 THEN eventSetSize ELSE 0

\* C15 witness: a second batch is being scrambled, out of a buffer that was
\* filled again after the first batch, and a draw of it has been made
C15_SecondBatchScrambled ==
    /\ pc = "scramble"
    /\ accepted = 2 * eventSetSize
    /\ fresh = 0 .. eventSetSize - 1
    /\ BagCardinality(nfake) > K * eventSetSize

(* ----------------------------- Csi::Vector: claims --------------------- *)
\* C16: Vector arithmetic round-trips and leaves its operands alone: for
\* all vectors v, v2 and scale factors tried, ((v + v2) -= v) equals v2,
\* v - v is the zero vector, v*v2 is the sum of the products of the
\* components, v*scale multiplies each component by scale, and v and v2 are
\* after every operator what they were before it.
C16_VectorArithmetic ==
    LET comps == {"x", "y", "z"}
        Sum3(f) == f["x"] + f["y"] + f["z"]
    IN  /\ v = vBefore
        /\ v2 = v2Before
        /\ vecOp = "add" => \A c \in comps : v3[c] = vBefore[c] + v2Before[c]
        /\ vecOp = "add, subtract-assign" => v3 = v2Before
        /\ vecOp = "subtract" =>
              /\ \A c \in comps : v3[c] + v2Before[c] = vBefore[c]
              /\ (v2Before = vBefore => \A c \in comps : v3[c] = 0)
        /\ vecOp = "dot" => dot = Sum3([c \in comps |-> vBefore[c] * v2Before[c]])
        /\ vecOp = "scale" => \A c \in comps : v4[c] = scale * vBefore[c]

\* C16 witness: the unit test's case, v = (1,2,3) added to a different
\* vector and subtracted again
C16_TestVectorRoundTrip ==
    /\ vecOp = "add, subtract-assign"
    /\ vBefore = TestVector
    /\ v2Before \notin {TestVector, ZeroVector}
    /\ v3 = v2Before

====
